---- MODULE Spec2Model ----
(***************************************************************************)
(* Model of primes/cprimes.pyx (class PrimeFinder32, whose integers are    *)
(* unsigned long: 64 bits where the code is built, so that it computes as  *)
(* PrimeFinder64 does).  The engine keeps an array of known                *)
(* primes (self.primes, "the frontier"), a set of primes found above it    *)
(* (self.non_contiguous_primes) and an optional gzip cache file.           *)
(*                                                                         *)
(* self.values_checked is a statistics counter that no result depends on;  *)
(* it is left out of the state.                                            *)
(***************************************************************************)
EXTENDS Integers, Sequences, FiniteSets

(***************************************************************************)
(* Bounds of the model.                                                    *)
(***************************************************************************)
\* The frontier of the seeded or cache-loaded engine is not grown beyond this
\* many elements (for the frontier at the end of the width see MaxWrapValue).
MaxFrontier == 37
\* Primality and membership queries range over 0..MaxQuery and Probes.
MaxQuery == 150
\* find_new_primes is called with count in 0..MaxCount.
MaxCount == 2
\* A generator is advanced at most this many times.
MaxYield == 37
\* Cache files given to the constructor hold the first MinCache..MaxCache primes.
MinCache == 3
MaxCache == 4
\* With such a cache file find_new_primes is called with count in 0..MaxCacheCount.
MaxCacheCount == 9
\* The loops of next_prime and find_new_primes are followed for candidates up
\* to MaxSpan above the frontier maximum they started from (the distance is
\* counted through the end of the unsigned range).
MaxSpan == 64
\* Cache files of the runs about next_prime hold the first 1..MaxShortCache
\* primes.
MaxShortCache == 3
\* A frontier that has grown past the end of the unsigned long range is
\* grown further as long as its last element is at most this value.
MaxWrapValue == 7
\* save is called at most this many times.
MaxSaves == 2
\* Queries above the seed frontier range over its maximum + 1 .. MaxAbove and
\* AboveProbes.
MaxAbove == 160

(***************************************************************************)
(* Program constants.                                                      *)
(***************************************************************************)
PRIMES ==
    << 2, 3, 5, 7, 11, 13, 17, 19, 23, 29, 31, 37, 41, 43, 47, 53, 59, 61, 67,
       71, 73, 79, 83, 89, 97, 101, 103, 107, 109, 113, 127, 131, 137, 139 >>

\* Bytes per item of array('L'): sizeof(unsigned long), 8 on the build
\* modelled.  n, last and i of the methods are cdef unsigned long as well:
\* 64 bits.
ItemSize == 8

(***************************************************************************)
(* Unsigned long values.  The integers of TLC have 32 bits, so an unsigned *)
(* long v is held as the integer congruent to it modulo 2^64 that TLC has: *)
(* v itself for v < 2^28, and v - 2^64 for v >= 2^64 - 2^28 (the same 64   *)
(* bits read as a signed number: 2^64 - 1 is held as -1).  The values in   *)
(* between are not followed.  Unsigned addition is integer addition of     *)
(* what is held: 2^64 - 1 plus 2 is -1 + 2 = 1, the wrapped sum.           *)
(***************************************************************************)
\* 2^64 - d
Top(d) == 0 - d

\* a + b of unsigned long values.
UAdd(a, b) == a + b

\* a > b of unsigned long values.
UGreater(a, b) == IF (a < 0) = (b < 0) THEN a > b ELSE a < 0

\* a * b modulo i, for a, b < i < 2^28, three bits of b at a time.
RECURSIVE MulMod(_, _, _)
MulMod(a, b, i) ==
    IF b = 0 THEN 0
    ELSE (((8 * MulMod(a, b \div 8, i)) % i) + ((a * (b % 8)) % i)) % i

\* 2^64 modulo i, for 0 < i < 2^28: the square of 2^32 modulo i.
Pow64Mod(i) ==
    LET h == (4 * ((2 ^ 30) % i)) % i
    IN  MulMod(h, h, i)

\* n % i of unsigned long values, i # 0.
URem(n, i) ==
    IF i > 0
    THEN (IF n >= 0 THEN n % i ELSE (Pow64Mod(i) + (n % i)) % i)
    ELSE (IF n < 0 /\ n >= i THEN n - i ELSE n)

\* Query arguments of the runs that also grow the frontier: small values,
\* and above the seed frontier composites and primes below and above the
\* square of its maximum.
Probes == {1, 2, 9, 139, 143, 149, 151, 221, 19051, 22201, 22801}
QueryValues == 0..MaxQuery
\* Those among them used where generators or saved files multiply the states.
FewProbes == {149, 19051, 22801}

\* Query arguments above the seed frontier: 221 = 13 * 17, 19043 = 137 * 139,
\* 19051 prime, 19321 = 139 * 139, 22201 = 149 * 149, 22499 = 149 * 151,
\* 22801 = 151 * 151.
AboveProbes == {221, 19043, 19051, 19321, 22201, 22499, 22801}
AboveValues == ((PRIMES[Len(PRIMES)] + 1)..MaxAbove) \cup AboveProbes

\* Query arguments of the runs about the non-contiguous set: primes the seed
\* frontier decides (149, 151), primes it cannot decide (19051, 19069) and
\* composites (143, 22201 = 149 * 149).
SetProbes == {143, 149, 151, 19051, 19069, 22201}

\* Reference values are tabulated up to RefLimit.
RefLimit == 200

(***************************************************************************)
(* Reference definitions, independent of the engine (plain trial division).*)
(***************************************************************************)
IsPrimeRef(n) == n > 1 /\ \A d \in 2..(n - 1) : d * d > n \/ n % d # 0

\* The primes up to RefLimit as a set, and in ascending order.
RefPrimeSet == {n \in 2..RefLimit : IsPrimeRef(n)}
RefPrimes ==
    [k \in 1..Cardinality(RefPrimeSet) |->
        CHOOSE m \in RefPrimeSet : Cardinality({p \in RefPrimeSet : p <= m}) = k]

\* The k-th prime, k >= 1 (0 beyond the table).
NthPrimeRef(k) == IF k \in 1..Len(RefPrimes) THEN RefPrimes[k] ELSE 0

\* floor(sqrt(n)) for n < RefLimit * RefLimit, by its definition.
FloorSqrtRef(n) == CHOOSE r \in 0..RefLimit : r * r <= n /\ n < (r + 1) * (r + 1)

(***************************************************************************)
(* State.                                                                  *)
(***************************************************************************)
VARIABLES
    primes,                 \* self.primes: the frontier array
    non_contiguous_primes,  \* self.non_contiguous_primes
    file,                   \* the cache file: whether it exists, and its content
    pc,                     \* "idle", or "find_new_primes" / "next_prime" while
                            \* the loop of that method runs step by step
    fnp,                    \* locals of the running find_new_primes / next_prime call
    gens,                   \* the generators made by __iter__
    last_call,              \* the most recent call: operation, argument, result
    saved                   \* history: the frontiers saved so far, oldest first

vars == << primes, non_contiguous_primes, file, pc, fnp, gens, last_call, saved >>

(***************************************************************************)
(* Pure helpers of the engine.                                             *)
(***************************************************************************)
\* <unsigned long>sqrt(n) for n < 2^28 (where the double is exact): the
\* integer part of the square root, the largest r with r * r <= n, found by
\* bisection of lo..hi.
RECURSIVE ISqrtIn(_, _, _)
ISqrtIn(n, lo, hi) ==
    IF lo >= hi THEN lo
    ELSE LET mid == (lo + hi + 1) \div 2
         IN  IF mid * mid <= n THEN ISqrtIn(n, mid, hi) ELSE ISqrtIn(n, lo, mid - 1)
ISqrt(n) == CASE n >= 0 -> ISqrtIn(n, 0, 2 ^ 14)

\* i > last for last = (<unsigned long>sqrt(n)) + 1.  For n >= 2^64 - 2^28,
\* sqrt((double) n) lies in (2^32 - 1, 2^32], so last is 2^32 or 2^32 + 1:
\* above every value held that is below 2^28, below every one from
\* 2^64 - 2^28 up.
exceeds_last(i, n) == IF n >= 0 THEN UGreater(i, ISqrt(n) + 1) ELSE i < 0

\* self.primes[1:]
Slice1(a) == IF Len(a) = 0 THEN << >> ELSE Tail(a)

\* bisect.bisect_left(a, x): binary search for the leftmost insertion point.
RECURSIVE bisect_search(_, _, _, _)
bisect_search(a, x, lo, hi) ==
    IF lo < hi
    THEN LET mid == (lo + hi) \div 2
         IN  IF UGreater(x, a[mid + 1]) THEN bisect_search(a, x, mid + 1, hi)
             ELSE bisect_search(a, x, lo, mid)
    ELSE lo
bisect_left(a, x) == bisect_search(a, x, 0, Len(a))

\* PrimeFinder32.__contains__
contains(P, item) ==
    LET i == bisect_left(P, item)
    IN  i < Len(P)

\* PrimeFinder32._is_known_prime
is_known_prime(P, S, n) == contains(P, n) \/ n \in S

\* Mutant of next_prime_scan: the divisibility test is missing.
RECURSIVE next_prime_scan_nodiv(_, _, _)
next_prime_scan_nodiv(ps, n, k) ==
    IF k > Len(ps) THEN "exhausted"
    ELSE IF exceeds_last(ps[k], n) THEN "prime"
    ELSE next_prime_scan_nodiv(ps, n, k + 1)

\* The for loop of next_prime over the snapshot ps = self.primes[1:], from its
\* k-th element on: "prime" when an element exceeds last, "composite" when an
\* element divides n, "exhausted" when the loop ends without either.
RECURSIVE next_prime_scan(_, _, _)
next_prime_scan(ps, n, k) ==
    IF k > Len(ps) THEN "exhausted"
    ELSE IF exceeds_last(ps[k], n) THEN "prime"
    ELSE IF URem(n, ps[k]) = 0 THEN "composite"
    ELSE next_prime_scan(ps, n, k + 1)

\* The while loop of next_prime: the value appended and returned, starting
\* from candidate n.
RECURSIVE next_prime_loop(_, _)
next_prime_loop(ps, n) ==
    LET n2 == UAdd(n, 2)
    IN  IF next_prime_scan(ps, n2, 1) = "prime" THEN n2
        ELSE next_prime_loop(ps, n2)

\* Mutant of next_prime: the search starts at the frontier maximum itself.
next_prime_from_last(P) ==
    LET ps == Slice1(P)
        n == ps[Len(ps)]
    IN  next_prime_loop(ps, n - 2)

\* PrimeFinder32.next_prime: the value it appends to self.primes and returns.
next_prime(P) ==
    LET ps == Slice1(P)
        n == ps[Len(ps)]
    IN  next_prime_loop(ps, n)

\* The for loop of find_new_primes, as next_prime_scan.
RECURSIVE find_new_primes_scan(_, _, _)
find_new_primes_scan(ps, n, k) ==
    IF k > Len(ps) THEN "exhausted"
    ELSE IF exceeds_last(ps[k], n) THEN "prime"
    ELSE IF URem(n, ps[k]) = 0 THEN "composite"
    ELSE find_new_primes_scan(ps, n, k + 1)

\* The for loop of _is_prime_via_known_sieve over self.primes[1:], for
\* last = (<unsigned long>sqrt(n)) + 1 with n below 2^28.
RECURSIVE known_sieve_scan(_, _, _, _)
known_sieve_scan(ps, n, last, k) ==
    IF k > Len(ps) THEN "exhausted"
    ELSE IF UGreater(ps[k], last) THEN "prime"
    ELSE IF URem(n, ps[k]) = 0 THEN "composite"
    ELSE known_sieve_scan(ps, n, last, k + 1)

\* PrimeFinder32._is_prime_via_known_sieve: raised is TRUE when it raises
\* TooFewPrimesKnown(last, n, i); otherwise ret is the boolean returned; ncp
\* is self.non_contiguous_primes afterwards.
is_prime_via_known_sieve(P, S, n) ==
    IF n % 2 = 0
    THEN [raised |-> FALSE, ret |-> FALSE, ncp |-> S, last |-> 0]
    ELSE IF is_known_prime(P, S, n)
    THEN [raised |-> FALSE, ret |-> TRUE, ncp |-> S, last |-> 0]
    ELSE LET last == UAdd(ISqrt(n), 1)
             r == known_sieve_scan(Slice1(P), n, last, 1)
         IN  IF r = "prime"
             THEN [raised |-> FALSE, ret |-> TRUE, ncp |-> S \cup {n}, last |-> last]
             ELSE IF r = "composite"
             THEN [raised |-> FALSE, ret |-> FALSE, ncp |-> S, last |-> last]
             ELSE [raised |-> TRUE, ret |-> FALSE, ncp |-> S, last |-> last]

\* Mutant of via_sieve_loop: the new primes are not tried as divisors.
RECURSIVE via_sieve_loop_nodiv(_, _, _, _)
via_sieve_loop_nodiv(P, S, n, last) ==
    LET i == next_prime(P)
        P2 == Append(P, i)
    IN  IF UGreater(i, last)
        THEN [ret |-> TRUE, primes |-> P2, ncp |-> S \cup {n}, sig |-> TRUE, exc |-> FALSE]
        ELSE via_sieve_loop_nodiv(P2, S, n, last)

\* Mutant of via_sieve_loop: n is recorded whatever the outcome.
RECURSIVE via_sieve_loop_add_always(_, _, _, _)
via_sieve_loop_add_always(P, S, n, last) ==
    LET i == next_prime(P)
        P2 == Append(P, i)
    IN  IF UGreater(i, last)
        THEN [ret |-> TRUE, primes |-> P2, ncp |-> S \cup {n}, sig |-> TRUE, exc |-> FALSE]
        ELSE IF URem(n, i) = 0
        THEN [ret |-> FALSE, primes |-> P2, ncp |-> S \cup {n}, sig |-> TRUE, exc |-> FALSE]
        ELSE via_sieve_loop_add_always(P2, S, n, last)

\* The while loop of is_prime_via_sieve after TooFewPrimesKnown: next_prime is
\* called until the new prime exceeds last or divides n.
RECURSIVE via_sieve_loop(_, _, _, _)
via_sieve_loop(P, S, n, last) ==
    LET i == next_prime(P)
        P2 == Append(P, i)
    IN  IF UGreater(i, last)
        THEN [ret |-> TRUE, primes |-> P2, ncp |-> S \cup {n}, sig |-> TRUE, exc |-> FALSE]
        ELSE IF URem(n, i) = 0
        THEN [ret |-> FALSE, primes |-> P2, ncp |-> S, sig |-> TRUE, exc |-> FALSE]
        ELSE via_sieve_loop(P2, S, n, last)

\* PrimeFinder32.is_prime_via_sieve: result and state afterwards.  sig tells
\* that _is_prime_via_known_sieve raised TooFewPrimesKnown, exc that the
\* exception leaves the method (the except clause catches it).
is_prime_via_sieve(P, S, n) ==
    LET r == is_prime_via_known_sieve(P, S, n)
    IN  IF ~r.raised
        THEN [ret |-> r.ret, primes |-> P, ncp |-> r.ncp, sig |-> FALSE, exc |-> FALSE]
        ELSE via_sieve_loop(P, S, n, r.last)

\* Mutant of brute_force_loop: the range stops one value early.
RECURSIVE brute_force_loop_short(_, _, _)
brute_force_loop_short(n, i, last) ==
    IF i >= last - 2 THEN TRUE
    ELSE IF n % i = 0 THEN FALSE
    ELSE brute_force_loop_short(n, i + 2, last)

\* The for loop of is_prime_via_brute_force over range(start, last, 2), from i.
RECURSIVE brute_force_loop(_, _, _)
brute_force_loop(n, i, last) ==
    IF i >= last THEN TRUE
    ELSE IF n % i = 0 THEN FALSE
    ELSE brute_force_loop(n, i + 2, last)

\* Mutant of is_prime_via_brute_force: n is recorded before the fallback scan.
is_prime_via_brute_force_early_add(P, S, n) ==
    LET r == is_prime_via_known_sieve(P, S, n)
    IN  IF ~r.raised
        THEN [ret |-> r.ret, primes |-> P, ncp |-> r.ncp, sig |-> FALSE, exc |-> FALSE]
        ELSE [ret |-> brute_force_loop(n, P[Len(P)] + 2, r.last), primes |-> P,
              ncp |-> S \cup {n}, sig |-> TRUE, exc |-> FALSE]

\* Mutant of is_prime_via_brute_force: the fallback is the one of
\* is_prime_via_sieve.
is_prime_via_brute_force_extends(P, S, n) == is_prime_via_sieve(P, S, n)

\* Mutant of is_prime_via_brute_force: no except clause.
is_prime_via_brute_force_uncaught(P, S, n) ==
    LET r == is_prime_via_known_sieve(P, S, n)
    IN  [ret |-> r.ret, primes |-> P, ncp |-> r.ncp, sig |-> r.raised, exc |-> r.raised]

\* PrimeFinder32.is_prime_via_brute_force (= is_prime): result and state
\* afterwards; sig and exc as for is_prime_via_sieve.
is_prime_via_brute_force(P, S, n) ==
    LET r == is_prime_via_known_sieve(P, S, n)
    IN  IF ~r.raised
        THEN [ret |-> r.ret, primes |-> P, ncp |-> r.ncp, sig |-> FALSE, exc |-> FALSE]
        ELSE IF brute_force_loop(n, P[Len(P)] + 2, r.last)
        THEN [ret |-> TRUE, primes |-> P, ncp |-> S \cup {n}, sig |-> TRUE, exc |-> FALSE]
        ELSE [ret |-> FALSE, primes |-> P, ncp |-> S, sig |-> TRUE, exc |-> FALSE]

\* array.tobytes(): each item as ItemSize bytes, least significant first
\* (for a value held as v - 2^64 these are the bytes of v).
RECURSIVE ItemBytes(_, _)
ItemBytes(v, k) == IF k = 0 THEN << >> ELSE << v % 256 >> \o ItemBytes(v \div 256, k - 1)

RECURSIVE tobytes(_)
tobytes(a) == IF Len(a) = 0 THEN << >> ELSE ItemBytes(Head(a), ItemSize) \o tobytes(Tail(a))

\* The item encoded by the k bytes b[from .. from + k - 1], the last of them
\* the most significant of the item: the value held for it (below 2^28 or
\* from 2^64 - 2^28 up).
RECURSIVE ItemValue(_, _, _)
ItemValue(b, from, k) ==
    IF k = 1 THEN (IF b[from] >= 128 THEN b[from] - 256 ELSE b[from])
    ELSE b[from] + 256 * ItemValue(b, from + 1, k - 1)

\* array.frombytes(b) on an empty array: it raises ValueError when b is not
\* a whole number of items, and otherwise appends the items.
frombytes(b) ==
    IF Len(b) % ItemSize # 0
    THEN [raised |-> TRUE, items |-> << >>]
    ELSE [raised |-> FALSE,
          items |-> [j \in 1..(Len(b) \div ItemSize) |->
                        ItemValue(b, (j - 1) * ItemSize + 1, ItemSize)]]

\* gzip.open(path, 'wb').write(data) and gzip.open(path, 'rb').read(): the
\* codec is lossless; the file holds the compressed stream of the data.
gzip_write(data) == [exists |-> TRUE, gz |-> data]
gzip_read(f) == f.gz

\* No file at the path.
NoFile == [exists |-> FALSE, gz |-> << >>]

\* PrimeFinder32.__init__: withPath is "cache_file is not None", f the file
\* at that path.  raised: the ValueError of frombytes leaves __init__ and
\* there is no new engine; otherwise primes is its frontier.
init_primes(withPath, f) ==
    LET loaded == IF withPath /\ f.exists THEN frombytes(gzip_read(f))
                  ELSE [raised |-> FALSE, items |-> << >>]
    IN  IF loaded.raised THEN [raised |-> TRUE, primes |-> << >>]
        ELSE [raised |-> FALSE,
              primes |-> IF loaded.items = << >> THEN PRIMES ELSE loaded.items]

\* Mutant of save: the file is opened for appending.
save_append(P, old) ==
    IF old.exists THEN gzip_write(gzip_read(old) \o tobytes(P)) ELSE gzip_write(tobytes(P))

\* PrimeFinder32.save: the file at save_path afterwards (old: the file before).
save(P, old) == gzip_write(tobytes(P))

\* __iter__, "yield from self.primes": whether the array iterator at index idx
\* has an item, and that item.
yield_from_has(P, idx) == idx < Len(P)
yield_from_item_skip(P, idx) == IF idx + 2 <= Len(P) THEN P[idx + 2] ELSE P[idx + 1]
yield_from_item(P, idx) == P[idx + 1]

(***************************************************************************)
(* Initial states and operations.                                          *)
(***************************************************************************)
GenIds == {1, 2}

\* A generator object that does not exist yet.
NoGen == [phase |-> "none", idx |-> 0, count |-> 0, value |-> 0, clean |-> FALSE]

NoLocals == [ps |-> << >>, n |-> 0, c |-> 0, count |-> 0]

\* The record of a call; rep tells that the call before it was the same
\* operation with the same argument, sig that TooFewPrimesKnown was raised
\* during the call, exc that the call ended with an exception.
Call(op, arg, bool, val) ==
    [op |-> op, arg |-> arg, bool |-> bool, val |-> val,
     rep |-> (last_call.op = op /\ last_call.arg = arg), sig |-> FALSE, exc |-> FALSE]

\* The record of a primality query with outcome r.
QueryCall(op, arg, r) == [Call(op, arg, r.ret, 0) EXCEPT !.sig = r.sig, !.exc = r.exc]

\* Every generator but g has seen another operation on the engine.
Disturb(gs, g) == [h \in GenIds |-> IF h = g THEN gs[h] ELSE [gs[h] EXCEPT !.clean = FALSE]]

\* PrimeFinder32() when ~withPath, PrimeFinder32(path) on the file f otherwise.
Constructed(withPath, f) ==
    /\ ~init_primes(withPath, f).raised
    /\ primes = init_primes(withPath, f).primes
    /\ non_contiguous_primes = {}
    /\ file = f
    /\ pc = "idle"
    /\ fnp = NoLocals
    /\ gens = [g \in GenIds |-> NoGen]
    /\ last_call = [op |-> "__init__", arg |-> 0, bool |-> FALSE, val |-> 0, rep |-> FALSE,
                    sig |-> FALSE, exc |-> FALSE]
    /\ saved = << >>

\* The engine constructed from a cache file that holds the first 1, 2, ...
\* MaxShortCache primes.
InitShortCache ==
    \E k \in 1..MaxShortCache : Constructed(TRUE, gzip_write(tobytes(SubSeq(PRIMES, 1, k))))

\* An engine constructed from a cache file whose frontier ends at
\* 2^64 - 59, the largest prime below 2^64.  The file holds the seed list,
\* the least prime factors above it of the odd values from 2^64 - 57 to
\* 2^64 - 1 (827 of 2^64 - 33, 11071 of 2^64 - 45, 139646831 of 2^64 - 39;
\* the least prime factor of every other one is in the seed list) and
\* 2^64 - 59: each of these candidates is rejected at the element at which
\* the complete frontier rejects it.
InitFull ==
    Constructed(TRUE, gzip_write(tobytes(PRIMES \o << 827, 11071, 139646831, Top(59) >>)))

\* The engine seeded with the built-in list: no cache file.
Init == Constructed(FALSE, NoFile)

\* The engine constructed from a cache file that holds a short frontier.
InitCache ==
    \E k \in MinCache..MaxCache : Constructed(TRUE, gzip_write(tobytes(SubSeq(PRIMES, 1, k))))

\* next_prime()
NextPrime ==
    /\ pc = "idle"
    /\ Len(primes) < MaxFrontier
    /\ LET n == next_prime(primes)
       IN  /\ primes' = Append(primes, n)
           /\ last_call' = Call("next_prime", 0, FALSE, n)
    /\ gens' = Disturb(gens, 0)
    /\ UNCHANGED << non_contiguous_primes, file, pc, fnp, saved >>

\* find_new_primes(count): entry, up to the first test of the while condition.
FindNewPrimesCallWithin(count, cap) ==
    /\ pc = "idle"
    /\ Len(primes) + count <= cap
    /\ LET ps == Slice1(primes)
       IN  fnp' = [ps |-> ps, n |-> ps[Len(ps)], c |-> 0, count |-> count]
    /\ pc' = "find_new_primes"
    /\ last_call' = Call("find_new_primes", count, FALSE, 0)
    /\ gens' = Disturb(gens, 0)
    /\ UNCHANGED << primes, non_contiguous_primes, file, saved >>

FindNewPrimesCall(count) == FindNewPrimesCallWithin(count, MaxFrontier)

\* find_new_primes: one iteration of the while loop.
FindNewPrimesIter ==
    /\ pc = "find_new_primes"
    /\ fnp.c < fnp.count
    /\ UAdd(fnp.n, 2) - fnp.ps[Len(fnp.ps)] <= MaxSpan
    /\ LET n == UAdd(fnp.n, 2)
       IN  IF find_new_primes_scan(fnp.ps, n, 1) = "prime"
           THEN /\ primes' = Append(primes, n)
                /\ fnp' = [fnp EXCEPT !.n = n, !.c = fnp.c + 1]
           ELSE /\ primes' = primes
                /\ fnp' = [fnp EXCEPT !.n = n]
    /\ UNCHANGED << non_contiguous_primes, file, pc, gens, last_call, saved >>

\* find_new_primes: the while condition fails and the call returns.
FindNewPrimesReturn ==
    /\ pc = "find_new_primes"
    /\ fnp.c >= fnp.count
    /\ pc' = "idle"
    /\ fnp' = NoLocals
    /\ UNCHANGED << primes, non_contiguous_primes, file, gens, last_call, saved >>

\* next_prime followed iteration by iteration, for frontiers on which its
\* while loop need not end.  Entry: primes = self.primes[1:]; n = primes[-1],
\* which raises IndexError when the slice is empty.
NextPrimeCallWithin(cap) ==
    /\ pc = "idle"
    /\ Len(primes) < cap
    /\ LET ps == Slice1(primes)
       IN  IF Len(ps) = 0
           THEN /\ last_call' = [Call("next_prime", 0, FALSE, 0) EXCEPT !.exc = TRUE]
                /\ UNCHANGED << pc, fnp >>
           ELSE /\ last_call' = Call("next_prime", 0, FALSE, 0)
                /\ fnp' = [ps |-> ps, n |-> ps[Len(ps)], c |-> 0, count |-> 0]
                /\ pc' = "next_prime"
    /\ gens' = Disturb(gens, 0)
    /\ UNCHANGED << primes, non_contiguous_primes, file, saved >>

NextPrimeCall == NextPrimeCallWithin(MaxFrontier)

\* next_prime: one iteration of the while loop; when the scan finds n prime,
\* n is appended and returned.
NextPrimeIter ==
    /\ pc = "next_prime"
    /\ UAdd(fnp.n, 2) - fnp.ps[Len(fnp.ps)] <= MaxSpan
    /\ LET n == UAdd(fnp.n, 2)
       IN  IF next_prime_scan(fnp.ps, n, 1) = "prime"
           THEN /\ primes' = Append(primes, n)
                /\ last_call' = [last_call EXCEPT !.val = n]
                /\ fnp' = NoLocals
                /\ pc' = "idle"
           ELSE /\ fnp' = [fnp EXCEPT !.n = n]
                /\ UNCHANGED << primes, last_call, pc >>
    /\ UNCHANGED << non_contiguous_primes, file, gens, saved >>

\* item in engine
Contains(item) ==
    /\ pc = "idle"
    /\ last_call' = Call("__contains__", item, contains(primes, item), 0)
    /\ gens' = Disturb(gens, 0)
    /\ UNCHANGED << primes, non_contiguous_primes, file, pc, fnp, saved >>

\* _is_known_prime(n)
IsKnownPrime(n) ==
    /\ pc = "idle"
    /\ last_call' = Call("_is_known_prime", n, is_known_prime(primes, non_contiguous_primes, n), 0)
    /\ gens' = Disturb(gens, 0)
    /\ UNCHANGED << primes, non_contiguous_primes, file, pc, fnp, saved >>

\* _is_prime_via_known_sieve(n), called directly: it returns a boolean, or
\* raises TooFewPrimesKnown, whose attribute last is recorded as val.
IsPrimeViaKnownSieve(n) ==
    /\ pc = "idle"
    /\ LET r == is_prime_via_known_sieve(primes, non_contiguous_primes, n)
       IN  /\ non_contiguous_primes' = r.ncp
           /\ last_call' = [Call("_is_prime_via_known_sieve", n, r.ret,
                                  IF r.raised THEN r.last ELSE 0)
                               EXCEPT !.sig = r.raised, !.exc = r.raised]
    /\ gens' = Disturb(gens, 0)
    /\ UNCHANGED << primes, file, pc, fnp, saved >>

\* is_prime_via_sieve(n)
IsPrimeViaSieve(n) ==
    /\ pc = "idle"
    /\ LET r == is_prime_via_sieve(primes, non_contiguous_primes, n)
       IN  /\ Len(r.primes) <= MaxFrontier
           /\ primes' = r.primes
           /\ non_contiguous_primes' = r.ncp
           /\ last_call' = QueryCall("is_prime_via_sieve", n, r)
    /\ gens' = Disturb(gens, 0)
    /\ UNCHANGED << file, pc, fnp, saved >>

\* is_prime_via_brute_force(n), which is is_prime(n)
IsPrimeViaBruteForce(n) ==
    /\ pc = "idle"
    /\ LET r == is_prime_via_brute_force(primes, non_contiguous_primes, n)
       IN  /\ primes' = r.primes
           /\ non_contiguous_primes' = r.ncp
           /\ last_call' = QueryCall("is_prime_via_brute_force", n, r)
    /\ gens' = Disturb(gens, 0)
    /\ UNCHANGED << file, pc, fnp, saved >>

\* save(save_path)
Save ==
    /\ pc = "idle"
    /\ Len(saved) < MaxSaves
    /\ file' = save(primes, file)
    /\ saved' = Append(saved, primes)
    /\ last_call' = Call("save", 0, FALSE, 0)
    /\ gens' = Disturb(gens, 0)
    /\ UNCHANGED << primes, non_contiguous_primes, pc, fnp >>

\* A new engine replaces the current one: PrimeFinder32(path) when withPath,
\* PrimeFinder32() otherwise.  Its generators do not exist yet.
Construct(withPath) ==
    /\ pc = "idle"
    /\ LET r == init_primes(withPath, file)
       IN  IF r.raised
           THEN /\ last_call' = [Call("__init__", IF withPath THEN 1 ELSE 0, FALSE, 0)
                                    EXCEPT !.exc = TRUE]
                /\ UNCHANGED << primes, non_contiguous_primes, gens >>
           ELSE /\ primes' = r.primes
                /\ non_contiguous_primes' = {}
                /\ gens' = [g \in GenIds |-> NoGen]
                /\ last_call' = Call("__init__", IF withPath THEN 1 ELSE 0, FALSE, 0)
    /\ UNCHANGED << file, pc, fnp, saved >>

\* iter(engine): a new generator object; no code of __iter__ has run yet.
GenStart(g) ==
    /\ pc = "idle"
    /\ gens[g].phase = "none"
    /\ gens' = [Disturb(gens, g) EXCEPT ![g] =
                    [phase |-> "yield_from", idx |-> 0, count |-> 0, value |-> 0, clean |-> TRUE]]
    /\ last_call' = Call("__iter__", g, FALSE, 0)
    /\ UNCHANGED << primes, non_contiguous_primes, file, pc, fnp, saved >>

\* next(generator): "yield from self.primes" reads the live array at its own
\* index; when that index reaches the end the generator goes on to
\* "while True: yield self.next_prime()".
GenNext(g) ==
    /\ pc = "idle"
    /\ gens[g].phase # "none"
    /\ gens[g].count < MaxYield
    /\ IF gens[g].phase = "yield_from" /\ yield_from_has(primes, gens[g].idx)
       THEN LET v == yield_from_item(primes, gens[g].idx)
            IN  /\ gens' = [Disturb(gens, g) EXCEPT ![g].idx = @ + 1, ![g].count = @ + 1,
                                                     ![g].value = v]
                /\ last_call' = Call("__next__", g, FALSE, v)
                /\ primes' = primes
       ELSE /\ Len(primes) < MaxFrontier
            /\ LET n == next_prime(primes)
               IN  /\ primes' = Append(primes, n)
                   /\ gens' = [Disturb(gens, g) EXCEPT ![g].phase = "while", ![g].count = @ + 1,
                                                        ![g].value = n]
                   /\ last_call' = Call("__next__", g, FALSE, n)
    /\ UNCHANGED << non_contiguous_primes, file, pc, fnp, saved >>

(***************************************************************************)
(* Specifications.                                                         *)
(***************************************************************************)
\* The seeded engine under every operation that changes it.
Next ==
    \/ NextPrime
    \/ \E count \in 0..MaxCount : FindNewPrimesCall(count)
    \/ FindNewPrimesIter
    \/ FindNewPrimesReturn
    \/ \E n \in FewProbes : IsPrimeViaSieve(n)
    \/ \E n \in FewProbes : IsPrimeViaBruteForce(n)
    \/ GenStart(1)
    \/ GenNext(1)

Spec == Init /\ [][Next]_vars

\* The seeded engine under the queries, over the whole query range.
NextQuery ==
    \/ NextPrime
    \/ \E n \in QueryValues : Contains(n)
    \/ \E n \in QueryValues : IsPrimeViaBruteForce(n)

SpecQuery == Init /\ [][NextQuery]_vars

\* The seeded engine under the direct calls, without generators.
NextOps ==
    \/ NextPrime
    \/ \E count \in 0..MaxCount : FindNewPrimesCall(count)
    \/ FindNewPrimesIter
    \/ FindNewPrimesReturn
    \/ \E n \in Probes : IsKnownPrime(n)
    \/ \E n \in Probes : IsPrimeViaSieve(n)
    \/ \E n \in Probes : IsPrimeViaBruteForce(n)

SpecOps == Init /\ [][NextOps]_vars

\* Iteration: two generators over the same engine and direct next_prime calls.
NextIter ==
    \/ NextPrime
    \/ \E g \in GenIds : GenStart(g)
    \/ \E g \in GenIds : GenNext(g)

SpecIter == Init /\ [][NextIter]_vars

\* Persistence: save, construction with and without a path, and the
\* operations that change what is saved.
NextPersist ==
    \/ NextPrime
    \/ \E n \in FewProbes : IsPrimeViaBruteForce(n)
    \/ Save
    \/ \E withPath \in BOOLEAN : Construct(withPath)

SpecPersist == Init /\ [][NextPersist]_vars

\* An engine constructed from a cache file that holds a short frontier.
NextCache ==
    \/ NextPrime
    \/ \E count \in 0..MaxCacheCount : FindNewPrimesCall(count)
    \/ FindNewPrimesIter
    \/ FindNewPrimesReturn

SpecCache == InitCache /\ [][NextCache]_vars

\* The seeded engine under is_prime queries above the seed frontier.
NextAbove ==
    \/ NextPrime
    \/ \E n \in AboveValues : IsPrimeViaBruteForce(n)

SpecAbove == Init /\ [][NextAbove]_vars

\* Direct calls of the sieve test on the seeded engine and on engines
\* constructed from a cache file with a very short frontier, with the
\* operations that change what the test knows.
InitSieve == Init \/ InitShortCache

NextSieve ==
    \/ NextPrimeCall
    \/ NextPrimeIter
    \/ \E n \in Probes : IsPrimeViaKnownSieve(n)
    \/ \E n \in Probes : IsPrimeViaBruteForce(n)

SpecSieve == InitSieve /\ [][NextSieve]_vars

\* The frontier length up to which a call asking for count more primes is
\* followed on the engine whose frontier ends at the largest prime below
\* 2^64: calls are followed while the maximum is in the upper range or at
\* most MaxWrapValue.
FullCap(count) ==
    IF primes[Len(primes)] < 0 \/ primes[Len(primes)] <= MaxWrapValue
    THEN Len(primes) + count
    ELSE Len(primes) - 1

\* That engine under next_prime and find_new_primes, step by step.

NextFull ==
    \/ NextPrimeCallWithin(FullCap(1))
    \/ NextPrimeIter
    \/ \E count \in 0..MaxCount : FindNewPrimesCallWithin(count, FullCap(count))
    \/ FindNewPrimesIter
    \/ FindNewPrimesReturn

SpecFull == InitFull /\ [][NextFull]_vars

\* next_prime calls, step by step, on an engine constructed from a cache file
\* with a very short frontier.
NextShortCache ==
    \/ NextPrimeCall
    \/ NextPrimeIter

SpecShortCache == InitShortCache /\ [][NextShortCache]_vars

\* The seeded engine under the operations that fill the non-contiguous set
\* and those that grow the frontier.
NextSet ==
    \/ NextPrime
    \/ \E count \in 0..MaxCount : FindNewPrimesCall(count)
    \/ FindNewPrimesIter
    \/ FindNewPrimesReturn
    \/ \E n \in SetProbes : IsPrimeViaSieve(n)
    \/ \E n \in SetProbes : IsPrimeViaBruteForce(n)

SpecSet == Init /\ [][NextSet]_vars

(***************************************************************************)
(* Claims.                                                                 *)
(***************************************************************************)
\* The engine is in the state the seed construction leaves: the built-in
\* frontier and nothing in the non-contiguous set.
Seeded == primes = PRIMES /\ non_contiguous_primes = {}

InFrontier(x) == \E i \in 1..Len(primes) : primes[i] = x

\* C1: on the freshly seeded engine, for every n with 0 <= n < 140,
\* is_prime(n) returns true exactly when n is prime by trial division.
C1_IsPrimeMatchesReference ==
    (Seeded /\ last_call.op = "is_prime_via_brute_force" /\ last_call.arg < 140)
        => (last_call.bool = IsPrimeRef(last_call.arg))

\* C2: on the seeded engine is_prime(p) returns true for every p of the
\* built-in seed list, 2 included.
C2_SeedPrimesArePrime ==
    (Seeded /\ last_call.op = "is_prime_via_brute_force"
            /\ \E i \in 1..Len(PRIMES) : PRIMES[i] = last_call.arg)
        => last_call.bool

\* C3: in every reachable state contains(item) returns true if and only if
\* item is an element of the frontier.
C3_ContainsIsMembership ==
    (last_call.op = "__contains__") => (last_call.bool = InFrontier(last_call.arg))
\* C4: the frontier starts at 2, is strictly ascending, holds only primes and
\* holds every prime up to its last element, after any sequence of next_prime,
\* find_new_primes, is_prime_via_sieve, is_prime_via_brute_force and
\* iteration steps from the seeded engine.
C4_FrontierInvariant ==
    /\ primes[1] = 2
    /\ \A i \in 1..(Len(primes) - 1) : primes[i] < primes[i + 1]
    /\ \A i \in 1..Len(primes) : primes[i] \in RefPrimeSet
    /\ \A m \in RefPrimeSet : m <= primes[Len(primes)] => InFrontier(m)

\* The frontier has been grown by next_prime, by a sieve query, by a
\* generator and by a find_new_primes call that has returned.
C4_Witness ==
    /\ Len(primes) = Len(PRIMES) + 3
    /\ gens[1].phase = "while"
    /\ non_contiguous_primes # {}
    /\ last_call.op = "find_new_primes" /\ last_call.arg > 0 /\ pc = "idle"

\* C5: each next_prime() call from the seeded engine returns the prime that
\* follows the frontier (the k-th call of a row the (34+k)-th prime), appends
\* exactly that value, and the value exceeds the previous maximum by 2 or more.
C5_NextPrimeYieldsNextPrimes ==
    [][(last_call'.op = "next_prime")
         => /\ primes' = Append(primes, last_call'.val)
            /\ last_call'.val = NthPrimeRef(Len(primes) + 1)
            /\ last_call'.val >= primes[Len(primes)] + 2]_vars

\* next_prime() has been called right after another next_prime() call and has
\* brought the frontier to three elements more than the seed list.
C5_Witness ==
    /\ last_call.op = "next_prime" /\ last_call.rep
    /\ Len(primes) = Len(PRIMES) + 3
    /\ non_contiguous_primes = {}
\* The frontier after k next_prime() calls on the frontier P.
RECURSIVE NextPrimeTimes(_, _)
NextPrimeTimes(P, k) ==
    IF k = 0 THEN P ELSE NextPrimeTimes(Append(P, next_prime(P)), k - 1)

\* The frontier on entry of the running find_new_primes call.
EntryFrontier == << primes[1] >> \o fnp.ps

\* C6: find_new_primes(count) terminates and leaves the frontier as count
\* next_prime() calls from the same state leave it.  While the call runs, with
\* c primes found, the frontier is what c next_prime() calls leave, and
\* as long as c < count the candidate has not passed the value the next
\* next_prime() call would append (past it the call can append it no more).
C6_FindNewPrimesAsNextPrime ==
    (pc = "find_new_primes")
        => /\ primes = NextPrimeTimes(EntryFrontier, fnp.c)
           /\ (fnp.c < fnp.count) => (fnp.n < next_prime(primes))
IsPrimeOps == {"is_prime_via_brute_force", "is_prime_via_sieve"}

\* C7: a primality query made twice in succession, with nothing in between,
\* returns the same boolean both times (is_prime and is_prime_via_sieve).
C7_IsPrimeIdempotent ==
    [][(last_call.op \in IsPrimeOps /\ last_call'.op = last_call.op
            /\ last_call'.arg = last_call.arg)
         => (last_call'.bool = last_call.bool)]_vars

\* is_prime_via_sieve(n) has been repeated right after a first call that
\* extended the frontier and returned false.
C7_Witness ==
    /\ last_call.op = "is_prime_via_sieve" /\ last_call.rep
    /\ Len(primes) > Len(PRIMES) /\ ~last_call.bool /\ last_call.arg > primes[Len(primes)]

\* C8: is_prime_via_brute_force(n) leaves the frontier unchanged; when it
\* returns true for n above the frontier, n is then in the non-contiguous set,
\* is_known_prime(n) is true and contains(n) is false; when it returns false
\* the non-contiguous set is unchanged.
C8_BruteForceFrame ==
    [][(last_call'.op = "is_prime_via_brute_force")
         => /\ primes' = primes
            /\ (last_call'.bool /\ last_call'.arg > primes[Len(primes)])
                 => /\ last_call'.arg \in non_contiguous_primes'
                    /\ is_known_prime(primes', non_contiguous_primes', last_call'.arg)
                    /\ ~contains(primes', last_call'.arg)
            /\ (~last_call'.bool) => (non_contiguous_primes' = non_contiguous_primes)]_vars

\* On the seeded frontier is_prime has returned true for 149 (sieve
\* conclusive) and for 19051 (fallback scan), and false in between.
C8_Witness ==
    /\ primes = PRIMES
    /\ {149, 19051} \subseteq non_contiguous_primes
    /\ last_call.op = "is_prime_via_brute_force" /\ last_call.arg = 22201 /\ ~last_call.bool
\* C9: a single iteration with no other operation on the engine in between
\* yields the frontier in order and then the results of next_prime(): the k-th
\* value yielded is the k-th prime, and it is in the frontier (at position k).
C9_IterationYieldsPrimesInOrder ==
    \A g \in GenIds :
        (gens[g].clean /\ gens[g].count >= 1)
            => /\ gens[g].value = NthPrimeRef(gens[g].count)
               /\ gens[g].count <= Len(primes)
               /\ primes[gens[g].count] = gens[g].value

\* An undisturbed generator that started on an extended frontier has yielded
\* all of it and two results of next_prime().
C9_Witness ==
    \E g \in GenIds :
        /\ gens[g].clean /\ gens[g].phase = "while"
        /\ gens[g].idx > Len(PRIMES)
        /\ gens[g].count >= gens[g].idx + 2

\* C10: a new engine constructed from the path has the frontier of the most
\* recent save, element for element (the seed list when nothing was saved),
\* and one constructed without a path has the seed list; its non-contiguous
\* set is empty.
C10_SaveLoadRoundTrip ==
    (last_call.op = "__init__")
        => /\ non_contiguous_primes = {}
           /\ primes = (IF last_call.arg = 1 /\ saved # << >> THEN saved[Len(saved)]
                        ELSE PRIMES)

\* The frontier was saved, extended and saved again, and the engine then
\* constructed from the path has the extended frontier.
C10_Witness ==
    /\ last_call.op = "__init__" /\ last_call.arg = 1
    /\ Len(saved) >= 2
    /\ Len(saved[Len(saved)]) > Len(saved[Len(saved) - 1])
    /\ primes = saved[Len(saved)]
    /\ file.exists

\* C11: TooFewPrimesKnown never leaves is_prime_via_sieve(n) nor
\* is_prime_via_brute_force(n) (= is_prime(n)): in every state reachable from
\* the seeded engine each of them ends with a boolean, also when
\* _is_prime_via_known_sieve raised the exception during the call.
C11_TooFewPrimesKnownNeverEscapes ==
    (last_call.op \in IsPrimeOps) => (~last_call.exc /\ last_call.bool \in BOOLEAN)

\* Both strategies have answered a query during which TooFewPrimesKnown was
\* raised: is_prime(19051) before, is_prime_via_sieve(22801) now.
C11_Witness ==
    /\ last_call.op = "is_prime_via_sieve" /\ last_call.arg = 22801
    /\ last_call.sig /\ ~last_call.exc
    /\ 19051 \in non_contiguous_primes

\* C12: in every state reachable from the seeded engine and for every n above
\* the frontier maximum, is_prime(n) returns true exactly when n is prime,
\* whether the known sieve decides or the fallback scan of the odd values
\* from the maximum + 2 up to floor(sqrt(n)) does; is_prime(221) on the
\* seeded frontier returns false.
C12_IsPrimeAboveFrontier ==
    (last_call.op = "is_prime_via_brute_force")
        => /\ (last_call.arg > primes[Len(primes)])
                => (last_call.bool = IsPrimeRef(last_call.arg))
           /\ (primes = PRIMES /\ last_call.arg = 221) => ~last_call.bool

\* On a frontier grown past 149, is_prime has answered true by the sieve
\* (157), true by the fallback scan (19051), and now false by the fallback
\* scan (22801 = 151 * 151).
C12_Witness ==
    /\ primes[Len(primes)] = 149
    /\ {157, 19051} \subseteq non_contiguous_primes
    /\ last_call.op = "is_prime_via_brute_force" /\ last_call.arg = 22801
    /\ last_call.sig /\ ~last_call.bool

\* C13: every value that enters the non-contiguous set is prime and greater
\* than the frontier maximum at that moment (by the conclusive sieve, by
\* is_prime_via_sieve after extending the frontier, by the fallback of
\* is_prime_via_brute_force); no element is ever removed, and none is moved
\* into the frontier: the frontier only ever receives its own next primes.
C13_NonContiguousSetInvariant ==
    [][/\ non_contiguous_primes \subseteq non_contiguous_primes'
       /\ \A n \in non_contiguous_primes' \ non_contiguous_primes :
              IsPrimeRef(n) /\ n > primes'[Len(primes')]
       /\ Len(primes') >= Len(primes)
       /\ \A k \in 1..Len(primes') :
              primes'[k] = (IF k <= Len(primes) THEN primes[k] ELSE NthPrimeRef(k))]_vars

\* All three insertions have happened: on the seed frontier 151 by the
\* conclusive sieve and 19051 by the brute-force fallback, and now 19069 by
\* is_prime_via_sieve, which raised TooFewPrimesKnown inside and extended the
\* frontier to 149.
C13_Witness ==
    /\ {151, 19051, 19069} \subseteq non_contiguous_primes
    /\ primes[Len(primes)] = 149
    /\ last_call.op = "is_prime_via_sieve" /\ last_call.arg = 19069
    /\ last_call.sig /\ last_call.bool

\* C14: next_prime() is total on every valid frontier, the short frontiers
\* [2], [2, 3] and [2, 3, 5] decoded from a cache file included: it raises
\* nothing, its loop does not pass over the prime that follows the frontier
\* maximum, and it returns having appended exactly that prime.
C14_NextPrimeTotal ==
    /\ (last_call.op = "next_prime") => ~last_call.exc
    /\ (pc = "next_prime") => (fnp.n < NthPrimeRef(Len(primes) + 1))
    /\ (pc = "idle" /\ last_call.op = "next_prime" /\ ~last_call.exc)
          => /\ last_call.val = NthPrimeRef(Len(primes))
             /\ primes[Len(primes)] = last_call.val

\* C15: the answer of is_prime(n) is stable: whatever is_prime(n) returns in a
\* state reachable from the seeded engine, it returns in the state after any
\* further step (next_prime, find_new_primes, an iteration step, a query),
\* hence after any sequence of them; 143, reported composite, is never
\* reported prime later.
C15_AnswerStability ==
    [][\A n \in Probes :
          is_prime_via_brute_force(primes', non_contiguous_primes', n).ret
              = is_prime_via_brute_force(primes, non_contiguous_primes, n).ret]_vars

\* C16: with two iterations over the same engine advanced in any
\* interleaving, and direct next_prime() calls in between, the k-th value
\* each iteration yields is the k-th prime (so each yields a strictly
\* ascending sequence and skips no prime that another appended).
C16_InterleavedIterations ==
    \A g \in GenIds :
        (gens[g].count >= 1) => (gens[g].value = NthPrimeRef(gens[g].count))

\* C17: from the same reachable state and for every n, is_prime_via_sieve(n)
\* ends and returns the boolean is_prime_via_brute_force(n) returns, and
\* leaves the same non-contiguous set; they differ only in the frontier, which
\* brute force leaves alone and the sieve strategy extends by next primes up
\* to the first one that exceeds floor(sqrt(n)) + 1 or divides n.
C17_SieveEqualsBruteForce ==
    \A n \in Probes :
        LET s == is_prime_via_sieve(primes, non_contiguous_primes, n)
            b == is_prime_via_brute_force(primes, non_contiguous_primes, n)
            Stops(i) == i > ISqrt(n) + 1 \/ n % i = 0
        IN  /\ s.ret = b.ret
            /\ s.ncp = b.ncp
            /\ b.primes = primes
            /\ Len(s.primes) >= Len(primes)
            /\ SubSeq(s.primes, 1, Len(primes)) = primes
            /\ \A k \in (Len(primes) + 1)..Len(s.primes) :
                   /\ s.primes[k] = NthPrimeRef(k)
                   /\ Stops(s.primes[k]) <=> (k = Len(s.primes))

\* After is_prime_via_sieve(19051) has extended the seed frontier to 149,
\* both strategies take their fallback for 22801 = 151 * 151 and answer
\* false; the sieve strategy would extend the frontier to 151 for it.
C17_Witness ==
    /\ last_call.op = "is_prime_via_sieve" /\ last_call.arg = 19051 /\ last_call.sig
    /\ primes[Len(primes)] = 149
    /\ LET s == is_prime_via_sieve(primes, non_contiguous_primes, 22801)
           b == is_prime_via_brute_force(primes, non_contiguous_primes, 22801)
       IN  /\ s.sig /\ b.sig /\ ~s.ret /\ ~b.ret
           /\ s.primes = Append(primes, 151)

\* C18: in every reachable state of an engine, the seeded one and one
\* constructed from a cache file alike, _is_prime_via_known_sieve(n) raises
\* TooFewPrimesKnown exactly when n is odd, n is neither in the frontier nor
\* in the non-contiguous set, no frontier element other than 2 divides n and
\* no frontier element is greater than floor(sqrt(n)) + 1; otherwise it
\* returns a boolean.  When it raises, the frontier and the set are
\* unchanged and the exception carries last = floor(sqrt(n)) + 1.
C18_SieveSignalsExactly ==
    [][(last_call'.op = "_is_prime_via_known_sieve")
         => LET n == last_call'.arg
                bound == FloorSqrtRef(n) + 1
                Signals == /\ n % 2 = 1
                           /\ ~InFrontier(n)
                           /\ n \notin non_contiguous_primes
                           /\ \A k \in 2..Len(primes) : n % primes[k] # 0
                           /\ \A k \in 1..Len(primes) : primes[k] <= bound
            IN  /\ last_call'.exc <=> Signals
                /\ last_call'.exc
                      => /\ primes' = primes
                         /\ non_contiguous_primes' = non_contiguous_primes
                         /\ last_call'.val = bound
                /\ ~last_call'.exc => last_call'.bool \in BOOLEAN]_vars

\* C19: overflow is detected: when the frontier ends at the largest prime
\* below 2^W (W = 64, the width of unsigned long), the candidate n of
\* next_prime() and of find_new_primes() never wraps around modulo 2^W (it
\* never falls below the frontier maximum it started from), and no value
\* smaller than or equal to the frontier maximum is appended: the frontier
\* stays strictly ascending and never receives 1, which is no prime.
C19_OverflowDetected ==
    /\ (pc # "idle") => ~UGreater(fnp.ps[Len(fnp.ps)], fnp.n)
    /\ \A k \in 2..Len(primes) : UGreater(primes[k], primes[k - 1])
    /\ \A k \in 1..Len(primes) : primes[k] # 1

====
